---- MODULE Spec2Model ----
(***************************************************************************)
(* Model of the jg JSON lexer (package lexer) and parser (package parser). *)
(*                                                                         *)
(* A buffer is a sequence of bytes; a byte is written as a one-character   *)
(* string for ASCII and as "<D9>", "<A0>", "<00>" for the three non-ASCII  *)
(* bytes the model uses.  Go positions are 0-based: the byte at Go index p *)
(* is input[p + 1].                                                        *)
(***************************************************************************)
EXTENDS Integers, Sequences, FiniteSets, TLC

VARIABLES
    input,     \* Lexer.input: the buffer, never written
    spare,     \* cap(input) - len(input): bytes of the backing array past the end
    tokens,    \* Lexer.tokens
    line,      \* Lexer.line
    col,       \* Lexer.col
    pos,       \* Lexer.pos
    user,      \* what the caller constructed: "lexer" (NewLexer) or "parser" (NewParser)
    op,        \* the last operation the caller ran
    n,         \* the int returned by the last Next
    err,       \* the error returned by the last Next
    status,    \* "running", or how the process ended: "fatal", "panic", "hang"
    fatalMsg,  \* the message of the log.Fatalf that ended the process
    doc,       \* the Document returned by the last Parse
    calls,     \* Next calls since construction or the last Reset
    parses     \* Parse calls so far

vars == <<input, spare, tokens, line, col, pos, user, op, n, err, status,
          fatalMsg, doc, calls, parses>>

-----------------------------------------------------------------------------
(* Bounds *)

MaxSegs == 2
MaxCalls == 5
MaxParses == 2
MaxRun == 3
SpareCap == 4

-----------------------------------------------------------------------------
(* lexer/token.go *)

EOF == 0
NEWLINE == 1
WHITESPACE == 2
QUOTE == 3
LBRACE == 4
RBRACE == 5
LBRACKET == 6
RBRACKET == 7
COMMA == 8
COLON == 9
NUMBER == 10
STRING_ == 11
TRUE_ == 12
FALSE_ == 13
NULL == 14

TokenTypeString(t) ==
    <<"EOF", "NEWLINE", "WHITESPACE", "QUOTE", "LBRACE", "RBRACE", "LBRACKET",
      "RBRACKET", "COMMA", "COLON", "NUMBER", "STRING", "TRUE", "FALSE",
      "NULL">>[t + 1]

\* The runes that are keys of the map.
structureRunes == {"{", "}", "[", "]", ",", ":"}

\* structures[r]: a rune that is not a key yields the zero TokenType, EOF.
structures(r) ==
    CASE r = "{" -> LBRACE
      [] r = "}" -> RBRACE
      [] r = "[" -> LBRACKET
      [] r = "]" -> RBRACKET
      [] r = "," -> COMMA
      [] r = ":" -> COLON
      [] OTHER -> EOF

Token(t, literal, ln, c, p) ==
    [Type |-> t, Literal |-> literal, Line |-> ln, Col |-> c, Pos |-> p]

-----------------------------------------------------------------------------
(* Bytes, runes and strings *)

AsciiDigits == {"0", "1", "2"}

PrintableAscii ==
    {"{", "}", "[", "]", ",", ":", " ", "\"", "-", ".", "a", "z",
     "t", "r", "u", "e", "f", "l", "s", "n"} \cup AsciiDigits

Ascii == PrintableAscii \cup {"\n", "\t", "\r"}

RuneError == "U+FFFD"

\* string(b): the bytes of b as one string.
RECURSIVE Str(_)
Str(b) == IF b = <<>> THEN "" ELSE Head(b) \o Str(Tail(b))

\* The backing array of the buffer: the spare capacity holds zero bytes.
Backing == input \o [i \in 1..spare |-> "<00>"]

\* utf8.DecodeRune(input[p:]) for 0 <= p < len(input).  U+0660 (ARABIC-INDIC
\* DIGIT ZERO) is encoded D9 A0; a lone D9 or A0 is malformed.
DecodeRune(p) ==
    LET b == input[p + 1] IN
    IF b \in Ascii THEN [r |-> b, size |-> 1]
    ELSE IF b = "<D9>" /\ p + 2 <= Len(input) /\ input[p + 2] = "<A0>"
         THEN [r |-> "U+0660", size |-> 2]
    ELSE [r |-> RuneError, size |-> 1]

\* unicode.IsDigit
IsDigit(r) == r \in AsciiDigits \cup {"U+0660"}

-----------------------------------------------------------------------------
(* Errors and call outcomes *)

NoErr == [msg |-> "nil", arg |-> "", line |-> 0, col |-> 0]

Errorf(msg, arg, ln, c) == [msg |-> msg, arg |-> arg, line |-> ln, col |-> c]

\* The outcome of a call on lexer l: the lexer afterwards, the values
\* returned, and whether the call returned ("ok") or ended the process.
Ret(l, size, e) == [l |-> l, n |-> size, err |-> e, exit |-> "ok", msg |-> ""]

Fatalf(l, msg) == [l |-> l, n |-> 0, err |-> NoErr, exit |-> "fatal", msg |-> msg]

Panic(l, msg) == [l |-> l, n |-> 0, err |-> NoErr, exit |-> "panic", msg |-> msg]

Hang(l) == [l |-> l, n |-> 0, err |-> NoErr, exit |-> "hang", msg |-> ""]

-----------------------------------------------------------------------------
(* The lexer *)

NewLexer == [tokens |-> <<>>, line |-> 1, col |-> 0, pos |-> 0]

\* Reset as it would be if it left the column alone.
ResetKeepsCol(l) == [tokens |-> <<>>, line |-> 1, col |-> l.col, pos |-> 0]

Reset(l) == [tokens |-> <<>>, line |-> 1, col |-> 0, pos |-> 0]

\* appendToken stores the byte position in Col and leaves Pos zero.
appendToken(l, t, literal) ==
    [l EXCEPT !.tokens = Append(@, Token(t, literal, l.line, l.pos, 0))]

\* The end-of-input branch as it would be if it stepped over a byte.
NextAtEndAdvances(l) ==
    Ret(appendToken([l EXCEPT !.line = @ + 1, !.col = 0, !.pos = @ + 1], EOF,
                    TokenTypeString(EOF)),
        0, NoErr)

\* The end-of-input branch of Next.
NextAtEnd(l) ==
    Ret(appendToken([l EXCEPT !.line = @ + 1, !.col = 0], EOF, TokenTypeString(EOF)),
        0, NoErr)

\* slice[:k] of slice == input[pos:]: k may exceed len(slice) up to cap(slice).
SlicePrefix(l, k) == SubSeq(Backing, l.pos + 1, l.pos + k)

readReserved(l) ==
    LET len == Len(input) - l.pos
        cap == len + spare
    IN  IF len >= 5 /\ Str(SlicePrefix(l, 5)) = "false"
        THEN Ret([appendToken(l, FALSE_, "false") EXCEPT !.col = @ + 4], 4, NoErr)
        ELSE IF len >= 4 /\ Str(SlicePrefix(l, 4)) = "true"
        THEN Ret([appendToken(l, TRUE_, Str(SlicePrefix(l, 4))) EXCEPT !.col = @ + 3],
                 3, NoErr)
        ELSE IF cap < 4
        THEN Panic(l, "slice bounds out of range")
        ELSE IF Str(SlicePrefix(l, 4)) = "null"
        THEN Ret([appendToken(l, TRUE_, Str(SlicePrefix(l, 4))) EXCEPT !.col = @ + 3],
                 3, NoErr)
        ELSE Ret(l, 0, Errorf("unexpected identifier", "", l.line, l.col))

\* readString decodes at l.pos in every iteration: the rune never changes.
\* A rune that is a key of structures passes all three tests, so the loop
\* never ends.
readStringRune(l, d) ==
    IF d.r = RuneError
    THEN Ret(l, 0, Errorf("invalid UTF-8 character", "", l.line, l.col))
    ELSE IF structures(d.r) = EOF
    THEN Ret(l, 0, Errorf("unexpected EOF", "", l.line, l.col))
    ELSE IF d.r = "\""
    THEN Ret([appendToken(l, QUOTE, "\"") EXCEPT !.col = @ + 1], d.size, NoErr)
    ELSE Hang(l)

readString(l) == readStringRune(l, DecodeRune(l.pos))

RECURSIVE readNumberLoop(_, _, _)

\* One iteration of the loop, d being the rune decoded at pos + size.
readNumberRune(l, size, hasDecimal, d) ==
    IF d.r = RuneError
    THEN Ret(l, 0, Errorf("invalid UTF-8 character", "", l.line, l.col))
    ELSE IF structures(d.r) \in {WHITESPACE, NEWLINE, COMMA}
    THEN Ret(l, size, NoErr)
    ELSE IF d.r = "."
    THEN IF hasDecimal
         THEN Fatalf(l, "Unexpected lexer")
         ELSE readNumberLoop([l EXCEPT !.col = @ + 1], size + d.size, TRUE)
    ELSE IF ~IsDigit(d.r)
    THEN Fatalf(l, "Unexpected lexer")
    ELSE readNumberLoop([l EXCEPT !.col = @ + 1], size + d.size, hasDecimal)

readNumberLoop(l, size, hasDecimal) ==
    IF l.pos + size >= Len(input)
    THEN Ret(l, 0, Errorf("unexpected EOF", "", l.line, l.col))
    ELSE readNumberRune(l, size, hasDecimal, DecodeRune(l.pos + size))

readNumber(l, size) == readNumberLoop(l, size, FALSE)

\* After a helper returned: Next returns 0 and the error, or adds the
\* helper's count to size and advances.
Advance(size, h) ==
    IF h.exit # "ok" THEN h
    ELSE IF h.err # NoErr THEN Ret(h.l, 0, h.err)
    ELSE Ret([h.l EXCEPT !.pos = @ + size + h.n], size + h.n, NoErr)

\* Next after the end-of-input test, r and size being the rune decoded at pos.
NextRune(l, r, size) ==
    IF r = RuneError THEN Fatalf(l, "Invalid UTF-8 character")
    ELSE IF size = 0 THEN NextAtEnd(l)
    ELSE IF r \in structureRunes
    THEN Advance(size, Ret(appendToken([l EXCEPT !.col = @ + 1], structures(r),
                                       TokenTypeString(structures(r))), 0, NoErr))
    ELSE IF r = "\n"
    THEN Advance(size, Ret(appendToken([l EXCEPT !.line = @ + 1, !.col = 0], NEWLINE,
                                       TokenTypeString(NEWLINE)), 0, NoErr))
    ELSE IF r \in {" ", "\t", "\r"}
    THEN Advance(size, Ret(appendToken([l EXCEPT !.col = IF r = "\t" THEN @ + 4 ELSE @ + 1],
                                       WHITESPACE, TokenTypeString(WHITESPACE)), 0, NoErr))
    ELSE IF r \in {"t", "f", "n"} THEN Advance(size, readReserved(l))
    ELSE IF r = "\"" THEN Advance(size, readString(l))
    ELSE IF r = "-" \/ IsDigit(r) THEN Advance(size, readNumber(l, size))
    ELSE Ret(l, 0, Errorf("unexpected rune", r, l.line, l.col))

NextDecoded(l, d) == NextRune(l, d.r, d.size)

LexerNext(l) ==
    IF l.pos >= Len(input) THEN NextAtEnd(l)
    ELSE NextDecoded(l, DecodeRune(l.pos))

\* Token returns the last token that was read; it indexes tokens[len - 1].
LexerToken(l) == l.tokens[Len(l.tokens)]

-----------------------------------------------------------------------------
(* The parser *)

\* The outcome of a parser call: obj or elements is what it returned.
PRet(l, v) == [l |-> l, exit |-> "ok", msg |-> "", val |-> v]

PExit(l, exit, msg) == [l |-> l, exit |-> exit, msg |-> msg, val |-> <<>>]

\* object{m: make(map[string]element)}: m as the set of its <<key, token>> entries.
EmptyObject == [m |-> {}]

\* CreateObject ignores what Next returns.  When Next fails it leaves pos
\* and tokens as they were, and fails again on the next iteration: the
\* loop never ends.
RECURSIVE CreateObject(_)

\* After the l.Next() that follows the colon (r3 is its outcome).
CreateObjectValue(r3) ==
    IF r3.exit # "ok" THEN PExit(r3.l, r3.exit, r3.msg)
    ELSE CreateObject(r3.l)

\* After the l.Next() that follows a STRING token (r2 is its outcome).
CreateObjectColon(r2) ==
    IF r2.exit # "ok" THEN PExit(r2.l, r2.exit, r2.msg)
    ELSE IF LexerToken(r2.l).Type # COLON THEN PExit(r2.l, "fatal", "expected colon")
    ELSE CreateObjectValue(LexerNext(r2.l))

\* After the first l.Next() of an iteration (r is its outcome).
CreateObjectKey(r) ==
    IF r.exit # "ok" THEN PExit(r.l, r.exit, r.msg)
    ELSE IF LexerToken(r.l).Type = EOF THEN PExit(r.l, "fatal", "unexpected EOF")
    ELSE IF LexerToken(r.l).Type = STRING_ THEN CreateObjectColon(LexerNext(r.l))
    ELSE IF r.err # NoErr THEN PExit(r.l, "hang", "")
    ELSE CreateObject(r.l)

CreateObject(l) ==
    IF l.tokens = <<>> THEN PExit(l, "panic", "index out of range")
    ELSE IF LexerToken(l).Type = RBRACE THEN PRet(l, EmptyObject)
    ELSE CreateObjectKey(LexerNext(l))

\* for p.lexer.Next() != 0 { log.Printf(...) }
RECURSIVE ParseDrain(_)

ParseDrainTest(r) ==
    IF r.exit # "ok" THEN r
    ELSE IF r.n # 0 THEN ParseDrain(r.l)
    ELSE r

ParseDrain(l) == ParseDrainTest(LexerNext(l))

\* The second loop of Parse, with d.elements so far.
RECURSIVE ParseLoop(_, _)

\* case lexer.LBRACE, o being the outcome of CreateObject.
ParseLoopObject(o, elements) ==
    IF o.exit # "ok" THEN o
    ELSE ParseLoop(o.l, Append(elements, o.val))

\* The switch, on the token t read before the Next whose outcome is r2.
ParseLoopSwitch(t, r2, elements) ==
    IF r2.exit # "ok" THEN PExit(r2.l, r2.exit, r2.msg)
    ELSE IF t.Type = LBRACE THEN ParseLoopObject(CreateObject(r2.l), elements)
    ELSE IF t.Type = LBRACKET THEN ParseLoop(r2.l, elements)
    ELSE IF t.Type = EOF THEN PRet(r2.l, elements)
    ELSE PExit(r2.l, "fatal", "must be object or array")

\* The loop test and the first two statements of the body.
ParseLoopTest(r, elements) ==
    IF r.exit # "ok" THEN PExit(r.l, r.exit, r.msg)
    ELSE IF r.n = 0 THEN PRet(r.l, elements)
    ELSE IF r.l.tokens = <<>> THEN PExit(r.l, "panic", "index out of range")
    ELSE ParseLoopSwitch(LexerToken(r.l), LexerNext(r.l), elements)

ParseLoop(l, elements) == ParseLoopTest(LexerNext(l), elements)

\* Parse after its first loop ended with outcome r.
ParseBuild(r) ==
    IF r.exit # "ok" THEN PExit(r.l, r.exit, r.msg)
    ELSE ParseLoop(r.l, <<>>)

\* Parse tests the int that Next returns and drops the error.
Parse(l) == ParseBuild(ParseDrain(l))

-----------------------------------------------------------------------------
(* Buffers *)

Bytes1 ==
    {"{", "}", "[", ":", ",", "\n", " ", "\"", "-", "1", ".", "z",
     "t", "n", "f", "<D9>", "<A0>"}

Words ==
    { <<"t", "r", "u", "e">>, <<"f", "a", "l", "s", "e">>,
      <<"n", "u", "l", "l">>, <<"t", "r", "u">> }

Segments == {<<b>> : b \in Bytes1} \cup Words

RECURSIVE Concats(_)
Concats(k) ==
    IF k = 0 THEN {<<>>}
    ELSE LET P == Concats(k - 1) IN P \cup {p \o s : p \in P, s \in Segments}

ObjA1 == <<"{", "\"", "a", "\"", ":", "1", "}">>
ObjA1True == <<"{", "\"", "a", "\"", ":", "1", ",", "\"", "z", "\"", ":", "t", "r", "u", "e", "}">>
ObjDup == <<"{", "\"", "a", "\"", ":", "1", ",", "\"", "a", "\"", ":", "2", "}">>
ObjBadNum == <<"{", "\"", "a", "\"", ":", " ", "1", ".", "2", ".", "1", "}">>
ArrNums == <<"[", "1", ",", "2", "]">>
ObjLines == <<"{", "\n", " ", "\n", "}", "\n">>
BadNum == <<"1", ".", "2", ".", "1">>

Corpus ==
    { ObjA1, ObjA1True, ObjDup, ObjBadNum,
      <<"\"", "a", "z", "\"">>,
      <<"-", "1", ".", "2", ",">>,
      <<"1", "2", ",", "1">>,
      <<"<D9>", "<A0>", ",">>,
      <<" ", "\t", "\r", "]", "z">>,
      ObjLines, ArrNums, BadNum }

Inputs == Concats(MaxSegs) \cup Corpus

-----------------------------------------------------------------------------
(* The state machine *)

Lx == [tokens |-> tokens, line |-> line, col |-> col, pos |-> pos]

NoDoc == [returned |-> FALSE, elements |-> <<>>]

Document(elements) == [returned |-> TRUE, elements |-> elements]

Init ==
    /\ input \in Inputs
    /\ spare \in {0, SpareCap}
    /\ user \in {"lexer", "parser"}
    /\ tokens = NewLexer.tokens
    /\ line = NewLexer.line
    /\ col = NewLexer.col
    /\ pos = NewLexer.pos
    /\ op = "New"
    /\ n = 0
    /\ err = NoErr
    /\ status = "running"
    /\ fatalMsg = ""
    /\ doc = NoDoc
    /\ calls = 0
    /\ parses = 0

SetLexer(l) ==
    /\ tokens' = l.tokens
    /\ line' = l.line
    /\ col' = l.col
    /\ pos' = l.pos

SetExit(exit, msg) ==
    /\ status' = IF exit = "ok" THEN "running" ELSE exit
    /\ fatalMsg' = msg

NextCall ==
    /\ user = "lexer"
    /\ status = "running"
    /\ calls < MaxCalls
    /\ \E r \in {LexerNext(Lx)} :
        /\ SetLexer(r.l)
        /\ SetExit(r.exit, r.msg)
        /\ n' = r.n
        /\ err' = r.err
    /\ op' = "Next"
    /\ calls' = calls + 1
    /\ UNCHANGED <<input, spare, user, doc, parses>>

ResetCall ==
    /\ user = "lexer"
    /\ status = "running"
    /\ SetLexer(Reset(Lx))
    /\ op' = "Reset"
    /\ calls' = 0
    /\ UNCHANGED <<input, spare, user, n, err, status, fatalMsg, doc, parses>>

CreateObjectCall ==
    /\ user = "lexer"
    /\ status = "running"
    /\ \E o \in {CreateObject(Lx)} :
        /\ SetLexer(o.l)
        /\ SetExit(o.exit, o.msg)
    /\ op' = "CreateObject"
    /\ UNCHANGED <<input, spare, user, n, err, doc, calls, parses>>

ParseCall ==
    /\ user = "parser"
    /\ status = "running"
    /\ parses < MaxParses
    /\ \E r \in {Parse(Lx)} :
        /\ SetLexer(r.l)
        /\ SetExit(r.exit, r.msg)
        /\ doc' = IF r.exit = "ok" THEN Document(r.val) ELSE NoDoc
    /\ op' = "Parse"
    /\ parses' = parses + 1
    /\ UNCHANGED <<input, spare, user, n, err, calls>>

Next == NextCall \/ ResetCall \/ CreateObjectCall \/ ParseCall

Spec == Init /\ [][Next]_vars

TypeOK ==
    /\ status \in {"running", "fatal", "panic", "hang"}
    /\ pos >= 0
    /\ line >= 1

-----------------------------------------------------------------------------
(* Vocabulary of the properties *)

\* The step is one call of Next by the caller.
IsNextStep == op' = "Next" /\ calls' = calls + 1

LastTok(toks) == toks[Len(toks)]

\* The first Parse of a parser has finished (returned or ended the process).
Parsed == op = "Parse" /\ parses = 1

\* Valid JSON objects of scalar values, with the entries they hold.
ValidScalarObjects == {<<"{", "}">>, ObjA1, ObjA1True}

ExpectedEntries(b) ==
    CASE b = ObjA1 -> {<<"a", NUMBER, "1">>}
      [] b = ObjA1True -> {<<"a", NUMBER, "1">>, <<"z", TRUE_, "true">>}
      [] OTHER -> {}

\* Go index p holds an opening quote that is closed after printable ASCII.
StringAt(p) ==
    /\ p < Len(input)
    /\ input[p + 1] = "\""
    /\ \E j \in (p + 2)..Len(input) :
          /\ input[j] = "\""
          /\ \A k \in (p + 2)..(j - 1) : input[k] \in PrintableAscii \ {"\""}

\* The 1-based index of the quote that closes the string opened at p.
ClosingQuote(p) ==
    CHOOSE j \in (p + 2)..Len(input) :
        /\ input[j] = "\""
        /\ \A k \in (p + 2)..(j - 1) : input[k] # "\""

RECURSIVE DigitRun(_)
DigitRun(p) ==
    IF p < Len(input) /\ input[p + 1] \in AsciiDigits THEN 1 + DigitRun(p + 1) ELSE 0

\* Length of the longest literal -?digit+(.digit+)? at Go index p, 0 if none.
NumLen(p) ==
    LET s == IF p < Len(input) /\ input[p + 1] = "-" THEN 1 ELSE 0
        d1 == DigitRun(p + s)
        q == p + s + d1
        d2 == IF q < Len(input) /\ input[q + 1] = "." THEN DigitRun(q + 1) ELSE 0
    IN  IF d1 = 0 THEN 0
        ELSE s + d1 + (IF d2 > 0 THEN 1 + d2 ELSE 0)

\* The keyword spelled by the bytes at Go index p, "" if none.
KeywordAt(p) ==
    IF p + 5 <= Len(input) /\ SubSeq(input, p + 1, p + 5) = <<"f", "a", "l", "s", "e">>
    THEN "false"
    ELSE IF p + 4 <= Len(input) /\ SubSeq(input, p + 1, p + 4) = <<"t", "r", "u", "e">>
    THEN "true"
    ELSE IF p + 4 <= Len(input) /\ SubSeq(input, p + 1, p + 4) = <<"n", "u", "l", "l">>
    THEN "null"
    ELSE ""

KeywordType(k) == CASE k = "true" -> TRUE_ [] k = "false" -> FALSE_ [] OTHER -> NULL

KeywordLen(k) == IF k = "false" THEN 5 ELSE 4

\* The tokens of the log that are neither Whitespace nor Newline.
IsSignificant(t) == t.Type \notin {WHITESPACE, NEWLINE}

Significant == SelectSeq(tokens, IsSignificant)

\* The buffer opens an object and holds no closing brace.
UnclosedObject ==
    /\ input # <<>>
    /\ input[1] = "{"
    /\ \A i \in 1..Len(input) : input[i] # "}"

\* What a caller observes of k calls of Next on lexer l.
Observed(r) ==
    IF r.exit = "ok"
    THEN [n |-> r.n, err |-> r.err, exit |-> r.exit, msg |-> r.msg, tokens |-> r.l.tokens]
    ELSE [n |-> 0, err |-> NoErr, exit |-> r.exit, msg |-> r.msg, tokens |-> <<>>]

RECURSIVE Run(_, _)

RunFrom(r, k) ==
    IF r.exit # "ok" THEN <<Observed(r)>>
    ELSE <<Observed(r)>> \o Run(r.l, k)

Run(l, k) == IF k = 0 THEN <<>> ELSE RunFrom(LexerNext(l), k - 1)

-----------------------------------------------------------------------------
(* Properties *)

\* C1: for a valid JSON object of scalar values, the Document that Parse
\* returns holds one root Object whose entries are exactly the keys of the
\* input, each with its String/Number/True/False/Null token.
C1_ParseBuildsRootObject ==
    (Parsed /\ input \in ValidScalarObjects) =>
        /\ status = "running"
        /\ doc.returned
        /\ Len(doc.elements) = 1
        /\ doc.elements[1].m = ExpectedEntries(input)

\* C2: with the cursor at an opening quote followed by printable ASCII and a
\* closing quote, Next succeeds and emits Quote, String (literal = the bytes
\* between the quotes), Quote.
C2_StringTokens ==
    [][(IsNextStep /\ StringAt(pos)) =>
        /\ status' = "running"
        /\ err' = NoErr
        /\ Len(tokens') = Len(tokens) + 3
        /\ tokens'[Len(tokens) + 1].Type = QUOTE
        /\ tokens'[Len(tokens) + 2].Type = STRING_
        /\ tokens'[Len(tokens) + 2].Literal = Str(SubSeq(input, pos + 2, ClosingQuote(pos) - 1))
        /\ tokens'[Len(tokens) + 3].Type = QUOTE]_vars

\* C3: with a literal -?digit+(.digit+)? at the cursor, Next emits a Number
\* token whose literal is the source text of that literal.
C3_NumberLiteralVerbatim ==
    [][(IsNextStep /\ NumLen(pos) > 0) =>
        /\ status' = "running"
        /\ err' = NoErr
        /\ Len(tokens') = Len(tokens) + 1
        /\ LastTok(tokens').Type = NUMBER
        /\ LastTok(tokens').Literal = Str(SubSeq(input, pos + 1, pos + NumLen(pos)))]_vars

\* C4: with true, false or null at the cursor, Next emits a True, False or
\* Null token with the keyword as literal and advances by its length.
C4_ReservedWords ==
    [][(IsNextStep /\ KeywordAt(pos) # "") =>
        /\ status' = "running"
        /\ err' = NoErr
        /\ Len(tokens') = Len(tokens) + 1
        /\ LastTok(tokens').Type = KeywordType(KeywordAt(pos))
        /\ LastTok(tokens').Literal = KeywordAt(pos)
        /\ pos' = pos + KeywordLen(KeywordAt(pos))]_vars

\* C5: Parse of an object that repeats a key fails with a duplicate-key
\* error and returns no Document.
C5_DuplicateKeyRejected ==
    (Parsed /\ input = ObjDup) =>
        /\ status = "fatal"
        /\ fatalMsg = "already exists"
        /\ ~doc.returned

\* C6: if the first token that is neither Whitespace nor Newline is not
\* LeftBrace, LeftBracket or EndOfInput, Parse fails with "must be object or
\* array" and returns no Document.
C6_RootMustBeContainer ==
    (Parsed /\ Significant # <<>> /\ Significant[1].Type \notin {LBRACE, LBRACKET, EOF}) =>
        /\ status = "fatal"
        /\ fatalMsg = "must be object or array"
        /\ ~doc.returned

\* C7: an input that opens an object and ends with no closing brace fails
\* with unexpected end of input; the input {} is accepted.
C7_UnclosedObjectFails ==
    Parsed =>
        /\ UnclosedObject => (status = "fatal" /\ fatalMsg = "unexpected EOF")
        /\ input = <<"{", "}">> => (status = "running" /\ doc.returned)

\* C8: Next and Parse never terminate the process (no log.Fatalf); every
\* failure is returned to the caller.
C8_NeverTerminatesProcess ==
    op \in {"Next", "Parse"} => status # "fatal"

\* C9: after any number of Next calls, Reset leaves a lexer on which every
\* following sequence of Next calls yields the same return values, errors
\* and tokens as on a freshly constructed lexer over the same buffer.
C9_ResetEqualsFresh ==
    [][op' = "Reset" =>
        \A k \in 0..MaxRun : Run(Lx', k) = Run(NewLexer, k)]_vars

C9_Witness ==
    /\ op = "Reset"
    /\ n > 0
    /\ tokens = <<>>
    /\ Len(Run(Lx, MaxRun)) = MaxRun
    /\ Run(Lx, MaxRun)[1].n > 0

\* C10: once pos has reached the end of the buffer, every further Next
\* returns 0 and no error, appends an EndOfInput token and leaves pos
\* unchanged.
C10_NextAtEndOfInput ==
    [][(IsNextStep /\ pos >= Len(input)) =>
        /\ status' = "running"
        /\ n' = 0
        /\ err' = NoErr
        /\ pos' = pos
        /\ Len(tokens') = Len(tokens) + 1
        /\ SubSeq(tokens', 1, Len(tokens)) = tokens
        /\ LastTok(tokens').Type = EOF]_vars

C10_Witness ==
    /\ op = "Next"
    /\ input # <<>>
    /\ pos >= Len(input)
    /\ Len(tokens) >= 3
    /\ tokens[Len(tokens)].Type = EOF
    /\ tokens[Len(tokens) - 1].Type = EOF
    /\ tokens[Len(tokens) - 2].Type = EOF

-----------------------------------------------------------------------------
(* Vocabulary of the properties: positions *)

\* Every Next since construction or the last Reset returned without error:
\* a Next that fails leaves pos alone and fails again, so the last one tells.
NextSucceeded == user = "lexer" /\ op = "Next" /\ status = "running" /\ err = NoErr

\* Valid JSON texts of the corpus.
ValidInputs == {<<"{", "}">>, ObjA1, ObjA1True, ArrNums, ObjLines}

\* The number of buffer bytes a token of the log stands for.
TokenWidth(t) ==
    CASE t.Type = EOF -> 0
      [] t.Type \in {TRUE_, NULL} -> 4
      [] t.Type = FALSE_ -> 5
      [] t.Type \in {NUMBER, STRING_} -> Len(t.Literal)
      [] OTHER -> 1

RECURSIVE WidthSum(_, _)
WidthSum(toks, i) == IF i = 0 THEN 0 ELSE WidthSum(toks, i - 1) + TokenWidth(toks[i])

\* The tokens of the log tile [0, pos): each starts where the one before ends.
Covered ==
    /\ \A i \in 1..Len(tokens) : tokens[i].Col = WidthSum(tokens, i - 1)
    /\ WidthSum(tokens, Len(tokens)) = pos

\* C11: after successful Next calls on valid input, the tokens of the log
\* cover the consumed bytes [0, pos) exactly once.
C11_TokensCoverConsumedBytes ==
    (NextSucceeded /\ input \in ValidInputs) => Covered

\* The Go index of the first byte of the line that holds Go index p.
LineStart(p) ==
    IF \E i \in 1..p : input[i] = "\n"
    THEN CHOOSE i \in 1..p : input[i] = "\n" /\ \A j \in (i + 1)..p : input[j] # "\n"
    ELSE 0

\* The number of characters of its line that precede Go index p.
CharsBefore(p) == Cardinality({i \in (LineStart(p) + 1)..p : input[i] # "<A0>"})

\* The number of newline bytes that precede Go index p.
NewlinesBefore(p) == Cardinality({i \in 1..p : input[i] = "\n"})

\* The step is a Next that appended one token for bytes of the buffer.
EmitsToken == IsNextStep /\ pos < Len(input) /\ Len(tokens') = Len(tokens) + 1

\* C12: a token's column is the character position on its own line (counted
\* from 0 or from 1), whatever the byte offset; a token on line k has line k.
C12_ColumnIsPositionOnLine ==
    [][EmitsToken =>
        /\ LastTok(tokens').Col \in {CharsBefore(pos), CharsBefore(pos) + 1}
        /\ LastTok(tokens').Type # NEWLINE =>
               LastTok(tokens').Line = 1 + NewlinesBefore(pos)]_vars

\* The number scanned from Go index p holds one '.' and meets another.
SecondDotAfter(p) ==
    /\ NumLen(p) > 0
    /\ \E i \in (p + 1)..(p + NumLen(p)) : input[i] = "."
    /\ p + NumLen(p) < Len(input)
    /\ input[p + NumLen(p) + 1] = "."

\* The Go index of that second '.'.
SecondDot(p) == p + NumLen(p)

\* The position a failed call reports: the column of the error it returned,
\* or the l.pos that readNumber hands to log.Fatalf.
ReportedPos == IF status = "fatal" THEN pos ELSE err.col

\* The last call failed on a malformed number, by an error or by log.Fatalf.
MalformedNumber ==
    \/ status = "fatal" /\ fatalMsg = "Unexpected lexer"
    \/ status = "running" /\ err.msg = "malformed number"

\* C13: a number scan that meets a second '.' fails with a malformed-number
\* error that reports the position of the second '.' (as byte offset or as
\* column from 0 or 1), not the position where the number starts.
C13_SecondDotPosition ==
    [][(IsNextStep /\ SecondDotAfter(pos)) =>
        /\ MalformedNumber'
        /\ ReportedPos' \in {SecondDot(pos), CharsBefore(SecondDot(pos)),
                             CharsBefore(SecondDot(pos)) + 1}]_vars

\* C14: whenever Parse returns a Document, the lexer has been consumed to
\* completion: pos is at (or past) the end of the buffer and the last token
\* of the log is EndOfInput.
C14_ParseConsumesLexer ==
    (op = "Parse" /\ status = "running" /\ doc.returned) =>
        /\ pos >= Len(input)
        /\ tokens # <<>>
        /\ LastTok(tokens).Type = EOF

\* The number of bytes of the token that starts at Go index p < len(input):
\* 1 for a structural, newline or whitespace byte, the length of a keyword or
\* of a number literal; 0 where none of these starts.
TokenLenAt(p) ==
    IF input[p + 1] \in structureRunes \cup {"\n", " ", "\t", "\r"} THEN 1
    ELSE IF KeywordAt(p) # "" THEN KeywordLen(KeywordAt(p))
    ELSE NumLen(p)

\* C15: a Next that returns n without error advances pos by exactly n, pos
\* never decreases, n is the number of bytes of the one token at the cursor,
\* and n = 0 only at end of input.
C15_NextAdvancesByToken ==
    [][(IsNextStep /\ status' = "running" /\ err' = NoErr) =>
        /\ pos' = pos + n'
        /\ pos' >= pos
        /\ n' = 0 => pos >= Len(input)
        /\ (pos < Len(input) /\ TokenLenAt(pos) > 0) => n' = TokenLenAt(pos)]_vars

\* Go index p holds t, f or n and the bytes from p do not spell a keyword.
BadIdentifierAt(p) ==
    /\ p < Len(input)
    /\ input[p + 1] \in {"t", "f", "n"}
    /\ KeywordAt(p) = ""

\* C16: with t, f or n at the cursor and no keyword spelled there (also when
\* fewer than 4 bytes remain), Next returns an unrecognized-identifier error
\* with the current line and column, does not crash and emits no token.
C16_BadIdentifierIsError ==
    [][(IsNextStep /\ BadIdentifierAt(pos)) =>
        /\ status' = "running"
        /\ err' = Errorf("unexpected identifier", "", line, col)
        /\ n' = 0
        /\ tokens' = tokens]_vars

\* The bytes that end a number: whitespace, newline, comma, structural.
NumberTerminators == {" ", "\t", "\r", "\n"} \cup structureRunes

\* A number literal starts at Go index p and one of those bytes follows it.
TerminatedNumberAt(p) ==
    /\ NumLen(p) > 0
    /\ p + NumLen(p) < Len(input)
    /\ input[p + NumLen(p) + 1] \in NumberTerminators

\* C17: a number directly followed by whitespace, a newline, a comma or a
\* structural character is scanned without error.
C17_NumberStopsAtTerminator ==
    [][(IsNextStep /\ TerminatedNumberAt(pos)) =>
        /\ status' = "running"
        /\ err' = NoErr]_vars

\* C18: a token emitted before end of input, the Newline token included, has
\* line = 1 + the number of newline bytes that precede its first byte.
C18_LineOfToken ==
    [][EmitsToken => LastTok(tokens').Line = 1 + NewlinesBefore(pos)]_vars

\* C19: a Next that returns an error leaves pos, line, col and the token log
\* as they were.
C19_FailedNextChangesNothing ==
    [][(IsNextStep /\ status' = "running" /\ err' # NoErr) =>
        /\ pos' = pos
        /\ line' = line
        /\ col' = col
        /\ tokens' = tokens]_vars

\* C20: after any sequence of Next and Reset calls, 0 <= pos <= len(input).
C20_PosWithinBuffer ==
    (user = "lexer" /\ op \in {"New", "Next", "Reset"}) =>
        (0 <= pos /\ pos <= Len(input))

====
